---- MODULE Spec2Model ----
(***************************************************************************)
(* VLVector<T, StaticCapacity> (src/VLVector.hpp): a contiguous sequence   *)
(* container that keeps its elements in the embedded array stackArr while  *)
(* _size <= StaticCapacity and in the owned heap array heapArr otherwise.  *)
(*                                                                         *)
(* A container is the record [_size, _capacity, heapArr, stackArr].  The   *)
(* free store is the function heap from addresses to buffers; every        *)
(* new[], delete[] and element access of the code goes through it, so a    *)
(* leak, a double free, an access to a freed buffer and an access past the *)
(* end of a buffer are all observable (variable fault).                    *)
(* Every member function is an operator from a "world" (the container it   *)
(* runs on, the free store, the fault flag) to the world it leaves.  The   *)
(* statements of a function body are composed by nesting; where a later    *)
(* statement reads an intermediate world more than once, the rest of the   *)
(* body is an operator of its own that takes that world as a parameter.    *)
(***************************************************************************)
EXTENDS Integers, Sequences, FiniteSets, TLC

\* ---------------------------------------------------------------- bounds
StaticCapacity == 2      \* the template parameter (line 20), instantiated small
MaxSize == 5             \* no operation is started that would exceed this size
MaxRun == 3              \* longest run handed to the range form of insert
NumVal == 2              \* element values are 1..NumVal
NumAddr == 6             \* addresses the free store can hand out
MaxDepth == 3            \* call-stack frames available to operator=

Val == 1..NumVal
Addr == 1..NumAddr
nullptr == 0             \* heapArr of a container that owns no buffer
stackBase == -1          \* base of a pointer into the embedded stackArr
Junk == 0                \* content of a slot that was never written
NoCopy == -1             \* element count of "no std::copy was made"

Runs == UNION {[1..n -> Val] : n \in 0..MaxRun}

\* --------------------------------------------------------------- capfunc
\* Mutant of capfunc: a size above the static capacity always gets a new capacity.
capfunc_ignoresCurrent(s, stat, nowCap) ==
    IF s <= stat THEN stat
    ELSE (3 * s) \div 2

\* Mutant of capfunc: grows the current capacity by 1.5 instead of the wanted size.
capfunc_growsCurrent(s, stat, nowCap) ==
    IF s <= stat THEN stat
    ELSE IF s <= nowCap THEN nowCap
    ELSE (3 * nowCap) \div 2

capfunc(s, stat, nowCap) ==
    IF s <= stat THEN stat
    ELSE IF s <= nowCap THEN nowCap
    ELSE (3 * s) \div 2

\* ------------------------------------------------------------ free store
FreeBuf == [live |-> FALSE, slots |-> <<>>]
EmptyHeap == [x \in Addr |-> FreeBuf]

\* The first memory error sticks; Flag(w, "none") changes nothing.
Flag(w, what) == IF w.fault = "none" THEN [w EXCEPT !.fault = what] ELSE w

\* new T[n]: a fresh buffer of n unwritten slots at an address not in use.
\* Behaviours differ only by a renaming of addresses, so the lowest free
\* address stands for whichever one the allocator returns.
FreeAddrs(w) == {x \in Addr : ~w.heap[x].live}
NewAddr(w) == IF FreeAddrs(w) = {} THEN nullptr
              ELSE CHOOSE x \in FreeAddrs(w) : \A y \in FreeAddrs(w) : x <= y
New(w, n) ==
    IF NewAddr(w) = nullptr THEN Flag(w, "bad_alloc")
    ELSE [w EXCEPT !.heap[NewAddr(w)] = [live |-> TRUE, slots |-> [i \in 1..n |-> Junk]]]

\* delete[] p: nothing for a null pointer; a double free when p is not live.
Delete(w, p) ==
    IF p = nullptr THEN w
    ELSE IF p \notin Addr \/ ~w.heap[p].live THEN Flag(w, "double_free")
    ELSE [w EXCEPT !.heap[p] = FreeBuf]

\* -------------------------------------------------------------- pointers
Ptr(base, off) == [base |-> base, off |-> off]
Plus(p, n) == [base |-> p.base, off |-> p.off + n]

Dangling(w, p) == p.base # stackBase /\ (p.base \notin Addr \/ ~w.heap[p.base].live)
BufLen(w, p) == IF p.base = stackBase THEN StaticCapacity ELSE Len(w.heap[p.base].slots)
AccessFault(w, p) ==
    IF Dangling(w, p) THEN "use_after_free"
    ELSE IF p.off < 0 \/ p.off >= BufLen(w, p) THEN "out_of_bounds"
    ELSE "none"

\* The error, if any, of accessing the n slots from first on.
RangeFault(w, first, n) ==
    IF n <= 0 THEN "none"
    ELSE IF Dangling(w, first) THEN "use_after_free"
    ELSE IF first.off < 0 \/ first.off + n > BufLen(w, first) THEN "out_of_bounds"
    ELSE "none"

Load(w, p) ==
    IF AccessFault(w, p) # "none" THEN Junk
    ELSE IF p.base = stackBase THEN w.vec.stackArr[p.off + 1]
    ELSE w.heap[p.base].slots[p.off + 1]

\* The values std::copy reads from [first, last) of the container of w.
RECURSIVE ReadRange(_, _, _)
ReadRange(w, first, last) ==
    IF last.off <= first.off THEN <<>>
    ELSE <<Load(w, first)>> \o ReadRange(w, Plus(first, 1), last)

ReadFault(w, first, last) == RangeFault(w, first, last.off - first.off)

\* *p = x; a slot outside the buffer is not written and is an error.
Store(w, p, x) ==
    IF AccessFault(w, p) # "none" THEN Flag(w, AccessFault(w, p))
    ELSE IF p.base = stackBase THEN [w EXCEPT !.vec.stackArr[p.off + 1] = x]
    ELSE [w EXCEPT !.heap[p.base].slots[p.off + 1] = x]

\* Writes xs to dest, dest + 1, ...
RECURSIVE StoreSeq(_, _, _)
StoreSeq(w, dest, xs) ==
    IF xs = <<>> THEN w
    ELSE StoreSeq(Store(w, dest, Head(xs)), Plus(dest, 1), Tail(xs))

\* The loop of std::copy: n elements from first to dest, one by one from the
\* front, so that an element of the source that was already overwritten is
\* read with its new value.
RECURSIVE CopyEach(_, _, _, _)
CopyEach(w, first, n, dest) ==
    IF n <= 0 THEN w
    ELSE CopyEach(Store(Flag(w, AccessFault(w, first)), dest, Load(w, first)),
                  Plus(first, 1), n - 1, Plus(dest, 1))

\* std::copy(first, last, dest); the world keeps the number of elements of
\* the latest such copy in the field copied.
copy(w, first, last, dest) ==
    CopyEach([w EXCEPT !.copied = last.off - first.off],
             first, last.off - first.off, dest)

\* ------------------------------------------------------------- container
\* VLVector(): _size(0), _capacity(StaticCapacity), heapArr(nullptr)
DefaultVec == [_size |-> 0, _capacity |-> StaticCapacity, heapArr |-> nullptr,
               stackArr |-> [i \in 1..StaticCapacity |-> Junk]]

World(vec, heap, fault) ==
    [vec |-> vec, heap |-> heap, fault |-> fault, copied |-> NoCopy]

size(w) == w.vec._size
capacity(w) == w.vec._capacity
begin(w) == IF w.vec._capacity > StaticCapacity THEN Ptr(w.vec.heapArr, 0)
            ELSE Ptr(stackBase, 0)
end(w) == Plus(begin(w), w.vec._size)
data(w) == begin(w)

\* The live elements: what iteration from begin() to end() reads.
Elems(w) == ReadRange(w, begin(w), end(w))

\* _reCap, lines 511 to 514: stack to heap.
ReCapToHeap(w, prevSize) ==
    LET newCap == capfunc(w.vec._size, StaticCapacity, w.vec._capacity)
    IN  [copy([New(w, newCap) EXCEPT !.vec.heapArr = NewAddr(w)],
              Ptr(stackBase, 0), Ptr(stackBase, prevSize), Ptr(NewAddr(w), 0))
         EXCEPT !.vec._capacity = newCap]

\* Mutant: the old heap buffer is not freed.
ReCapGrow_keepsOld(w, prevSize) ==
    LET newCap == capfunc(w.vec._size, StaticCapacity, w.vec._capacity)
        old == w.vec.heapArr
    IN  [copy(New([w EXCEPT !.vec._capacity = newCap], newCap),
              Ptr(old, 0), Ptr(old, prevSize), Ptr(NewAddr(w), 0))
         EXCEPT !.vec.heapArr = NewAddr(w)]

\* Mutant: the copy into the new buffer stops one element short.
ReCapGrow_shortCopy(w, prevSize) ==
    LET newCap == capfunc(w.vec._size, StaticCapacity, w.vec._capacity)
        old == w.vec.heapArr
    IN  [Delete(copy(New([w EXCEPT !.vec._capacity = newCap], newCap),
                     Ptr(old, 0), Ptr(old, prevSize - 1), Ptr(NewAddr(w), 0)),
                old)
         EXCEPT !.vec.heapArr = NewAddr(w)]

\* _reCap, lines 521 to 528: the heap buffer grows.  delete[] is guarded by
\* if (heapArr); Delete does nothing for a null pointer either.
ReCapGrow(w, prevSize) ==
    LET newCap == capfunc(w.vec._size, StaticCapacity, w.vec._capacity)
        old == w.vec.heapArr
    IN  [Delete(copy(New([w EXCEPT !.vec._capacity = newCap], newCap),
                     Ptr(old, 0), Ptr(old, prevSize), Ptr(NewAddr(w), 0)),
                old)
         EXCEPT !.vec.heapArr = NewAddr(w)]

\* Mutant: the move to the inline buffer copies one element more than are left.
ReCapToStack_copiesOneMore(w) ==
    [Delete(copy([w EXCEPT !.vec._capacity = StaticCapacity],
                 Ptr(w.vec.heapArr, 0), Ptr(w.vec.heapArr, w.vec._size + 1),
                 Ptr(stackBase, 0)),
            w.vec.heapArr)
     EXCEPT !.vec.heapArr = nullptr]

\* Mutant: frees the heap buffer but keeps the pointer to it.
ReCapToStack_keepsPointer(w) ==
    Delete(copy([w EXCEPT !.vec._capacity = StaticCapacity],
                Ptr(w.vec.heapArr, 0), Ptr(w.vec.heapArr, w.vec._size), Ptr(stackBase, 0)),
           w.vec.heapArr)

\* Mutant: drops the pointer without freeing the heap buffer.
ReCapToStack_leaks(w) ==
    [copy([w EXCEPT !.vec._capacity = StaticCapacity],
          Ptr(w.vec.heapArr, 0), Ptr(w.vec.heapArr, w.vec._size), Ptr(stackBase, 0))
     EXCEPT !.vec.heapArr = nullptr]

\* _reCap, lines 532 to 538: heap to stack.  With heapArr null nothing is
\* freed and heapArr stays null.
ReCapToStack(w) ==
    [Delete(copy([w EXCEPT !.vec._capacity = StaticCapacity],
                 Ptr(w.vec.heapArr, 0), Ptr(w.vec.heapArr, w.vec._size), Ptr(stackBase, 0)),
            w.vec.heapArr)
     EXCEPT !.vec.heapArr = nullptr]

\* _reCap(prevSize): runs after _size was set to its new value.
_reCap(w, prevSize) ==
    IF w.vec._size <= w.vec._capacity /\ w.vec._size > StaticCapacity THEN w
    ELSE IF w.vec._capacity = StaticCapacity
         THEN IF w.vec._size <= w.vec._capacity THEN w
              ELSE ReCapToHeap(w, prevSize)
    ELSE IF w.vec._capacity > StaticCapacity
         THEN IF w.vec._size >= w.vec._capacity THEN ReCapGrow(w, prevSize)
              ELSE IF w.vec._size <= StaticCapacity THEN ReCapToStack(w)
              ELSE w
    ELSE w

\* push_back, lines 113 to 120: the write of the new last element.
WriteLast(w, add) ==
    IF w.vec._capacity > StaticCapacity
    THEN Store(w, Ptr(w.vec.heapArr, w.vec._size - 1), add)
    ELSE Store(w, Ptr(stackBase, w.vec._size - 1), add)

\* push_back(add)
push_back(w, add) ==
    WriteLast(_reCap([w EXCEPT !.vec._size = @ + 1], w.vec._size), add)

\* Mutant: pop_back does not run the transition engine.
pop_back_sizeOnly(w) ==
    IF w.vec._size = 0 THEN w
    ELSE [w EXCEPT !.vec._size = @ - 1]

\* pop_back()
pop_back(w) ==
    IF w.vec._size = 0 THEN w
    ELSE _reCap([w EXCEPT !.vec._size = @ - 1], w.vec._size)

\* Mutant: clear does not run the transition engine.
clear_sizeOnly(w) ==
    IF w.vec._size = 0 THEN w
    ELSE [w EXCEPT !.vec._size = 0]

\* clear()
clear(w) ==
    IF w.vec._size = 0 THEN w
    ELSE _reCap([w EXCEPT !.vec._size = 0], w.vec._size)

\* Mutant: the destructor releases nothing.
Destructor_leaks(w) == w

\* ~VLVector()
Destructor(w) ==
    IF w.vec._capacity > StaticCapacity THEN Delete(w, w.vec.heapArr) ELSE w

\* VLVector(first, last): the default constructor, then push_back of each
\* element of the input range.  w supplies the free store; the result is the
\* world of the constructed container.
RECURSIVE PushAll(_, _)
PushAll(w, xs) == IF xs = <<>> THEN w ELSE PushAll(push_back(w, Head(xs)), Tail(xs))

RangeCtor(w, xs) == PushAll([w EXCEPT !.vec = DefaultVec], xs)

\* The world of another container tv in the free store of w, and the world
\* of the container of w after tw's container has used the free store.
TempOf(w, tv) == [w EXCEPT !.vec = tv]
Back(w, tw) == [w EXCEPT !.heap = tw.heap, !.fault = tw.fault]

\* std::copy(temp.begin(), temp.end(), dest)
CopyFromTemp(w, tv, dest) ==
    StoreSeq(Flag(w, ReadFault(TempOf(w, tv), begin(TempOf(w, tv)), end(TempOf(w, tv)))),
             dest, Elems(TempOf(w, tv)))

\* std::copy(position, begin() + orgSize, dest)
CopyTail(w, position, orgSize, dest) == copy(w, position, Plus(begin(w), orgSize), dest)

\* insert (range), lines 314 to 318, after newArr = new T[_capacity].
InsertHeapFill(w, newArr, position, disPos, numAdd, tv, orgSize) ==
    [Delete(CopyTail(CopyFromTemp(copy(w, begin(w), position, newArr),
                                  tv, Plus(newArr, disPos)),
                     position, orgSize, Plus(newArr, disPos + numAdd)),
            w.vec.heapArr)
     EXCEPT !.vec.heapArr = newArr.base]

\* insert (range), lines 310 to 318: the container is on the heap.
InsertHeap(w, position, disPos, numAdd, tv) ==
    LET newCap == capfunc(w.vec._size + numAdd, StaticCapacity, w.vec._capacity)
    IN  InsertHeapFill(New([w EXCEPT !.vec._capacity = newCap, !.vec._size = @ + numAdd],
                           newCap),
                       Ptr(NewAddr(w), 0), position, disPos, numAdd, tv, w.vec._size)

\* insert (range), lines 322 to 329: stack to heap.
InsertToHeap(w, position, disPos, numAdd, tv) ==
    LET newCap == capfunc(w.vec._size + numAdd, StaticCapacity, w.vec._capacity)
        newArr == Ptr(NewAddr(w), 0)
    IN  [copy(CopyFromTemp(copy(New([w EXCEPT !.vec._capacity = newCap,
                                              !.vec._size = @ + numAdd], newCap),
                                Ptr(stackBase, 0), position, newArr),
                           tv, Plus(newArr, disPos)),
              position, Ptr(stackBase, w.vec._size), Plus(newArr, disPos + numAdd))
         EXCEPT !.vec.heapArr = newArr.base]

\* Mutant: the shifted suffix starts one element late.
InsertOnStack_dropsShifted(w, position, disPos, numAdd, tv) ==
    StoreSeq(CopyFromTemp([w EXCEPT !.vec._size = @ + numAdd], tv, Ptr(stackBase, disPos)),
             Ptr(stackBase, disPos + numAdd),
             SubSeq(ReadRange(w, begin(w), end(w)), disPos + 2, w.vec._size))

\* insert (range), lines 333 to 338: the container stays on the stack.  The
\* local array newArr holds a copy of the old elements.
InsertOnStack(w, position, disPos, numAdd, tv) ==
    StoreSeq(CopyFromTemp(Flag([w EXCEPT !.vec._size = @ + numAdd],
                               ReadFault(w, begin(w), end(w))),
                          tv, Ptr(stackBase, disPos)),
             Ptr(stackBase, disPos + numAdd),
             SubSeq(ReadRange(w, begin(w), end(w)), disPos + 1, w.vec._size))

\* A world and the iterator the call returns.
Returning(w, ret) == [vec |-> w.vec, heap |-> w.heap, fault |-> w.fault, ret |-> ret]

\* insert (range), line 341
InsertRet(w, disPos, numAdd) == Plus(begin(w), numAdd)

\* insert (range), lines 340 to 342: temp.clear(), the return value, and the
\* destructor of temp.
InsertEnd(w, disPos, tv) ==
    Returning(Back(w, Destructor(clear(TempOf(w, tv)))), InsertRet(w, disPos, tv._size))

\* insert (range), lines 306 to 342, with temp constructed in world tw.
InsertWithTemp(w, position, tw) ==
    LET numAdd == tw.vec._size
        disPos == position.off - begin(w).off
    IN  InsertEnd(IF w.vec._capacity > StaticCapacity
                  THEN InsertHeap(Back(w, tw), position, disPos, numAdd, tw.vec)
                  ELSE IF w.vec._size + numAdd > StaticCapacity
                  THEN InsertToHeap(Back(w, tw), position, disPos, numAdd, tw.vec)
                  ELSE InsertOnStack(Back(w, tw), position, disPos, numAdd, tw.vec),
                  disPos, tw.vec)

\* insert(position, first, last); xs is the input range [first, last).
insertRange(w, position, xs) == InsertWithTemp(w, position, RangeCtor(w, xs))

\* insert (single), lines 360 to 364, after newArr = new T[_capacity].
InsertOneHeapFill(w, newArr, position, disPos, toAdd, orgSize) ==
    [Delete(CopyTail(Store(copy(w, begin(w), position, newArr),
                           Plus(newArr, disPos), toAdd),
                     position, orgSize, Plus(newArr, disPos + 1)),
            w.vec.heapArr)
     EXCEPT !.vec.heapArr = newArr.base]

\* insert (single), lines 356 to 364: the container is on the heap.
InsertOneHeap(w, position, disPos, toAdd) ==
    LET newCap == capfunc(w.vec._size + 1, StaticCapacity, w.vec._capacity)
    IN  InsertOneHeapFill(New([w EXCEPT !.vec._capacity = newCap, !.vec._size = @ + 1],
                              newCap),
                          Ptr(NewAddr(w), 0), position, disPos, toAdd, w.vec._size)

\* insert (single), lines 368 to 375: stack to heap.
InsertOneToHeap(w, position, disPos, toAdd) ==
    LET newCap == capfunc(w.vec._size + 1, StaticCapacity, w.vec._capacity)
        newArr == Ptr(NewAddr(w), 0)
    IN  [copy(Store(copy(New([w EXCEPT !.vec._capacity = newCap,
                                       !.vec._size = @ + 1], newCap),
                         Ptr(stackBase, 0), position, newArr),
                    Plus(newArr, disPos), toAdd),
              position, Ptr(stackBase, w.vec._size), Plus(newArr, disPos + 1))
         EXCEPT !.vec.heapArr = newArr.base]

\* insert (single), lines 379 to 384: the container stays on the stack.
InsertOneOnStack(w, position, disPos, toAdd) ==
    StoreSeq(Store(Flag([w EXCEPT !.vec._size = @ + 1], ReadFault(w, begin(w), end(w))),
                   Ptr(stackBase, disPos), toAdd),
             Ptr(stackBase, disPos + 1),
             SubSeq(ReadRange(w, begin(w), end(w)), disPos + 1, w.vec._size))

\* insert (single), line 386
InsertOneRet(w, disPos) == Plus(begin(w), disPos)

InsertOneEnd(w, disPos) == Returning(w, InsertOneRet(w, disPos))

\* insert(position, toAdd)
insertOne(w, position, toAdd) ==
    LET disPos == position.off - begin(w).off
    IN  InsertOneEnd(IF w.vec._capacity > StaticCapacity
                     THEN InsertOneHeap(w, position, disPos, toAdd)
                     ELSE IF w.vec._size + 1 > StaticCapacity
                     THEN InsertOneToHeap(w, position, disPos, toAdd)
                     ELSE InsertOneOnStack(w, position, disPos, toAdd),
                     disPos)

\* erase (range), lines 401 to 403: the container stays on the stack.
EraseOnStack(w, first, last, numSub) ==
    copy([w EXCEPT !.vec._size = @ - numSub], last, Plus(begin(w), w.vec._size), first)

\* std::copy(last, end(), dest)
CopyRest(w, last, dest) == copy(w, last, end(w), dest)

\* Mutant: the surviving prefix is not copied to the inline buffer.
EraseToStack_noPrefix(w, first, last, numSub, disFirst) ==
    [Delete([CopyRest(w, last, Ptr(stackBase, disFirst))
             EXCEPT !.vec._capacity = StaticCapacity, !.vec._size = @ - numSub],
            w.vec.heapArr)
     EXCEPT !.vec.heapArr = nullptr]

\* erase (range), lines 407 to 412: heap to stack.
EraseToStack(w, first, last, numSub, disFirst) ==
    [Delete([CopyRest(copy(w, Ptr(w.vec.heapArr, 0), first, Ptr(stackBase, 0)),
                      last, Ptr(stackBase, disFirst))
             EXCEPT !.vec._capacity = StaticCapacity, !.vec._size = @ - numSub],
            w.vec.heapArr)
     EXCEPT !.vec.heapArr = nullptr]

\* Mutant: the shift starts at first instead of last, so nothing moves.
EraseOnHeap_fromFirst(w, first, last, numSub, disFirst) ==
    [CopyRest(w, first, Ptr(w.vec.heapArr, disFirst)) EXCEPT !.vec._size = @ - numSub]

\* erase (range), lines 416 and 417: the container stays on the heap.
EraseOnHeap(w, first, last, numSub, disFirst) ==
    [CopyRest(w, last, Ptr(w.vec.heapArr, disFirst)) EXCEPT !.vec._size = @ - numSub]

\* erase (range), line 419
EraseEnd(w, disFirst) == Returning(w, Plus(begin(w), disFirst))

\* erase(first, last)
erase(w, first, last) ==
    LET numSub == last.off - first.off
        disFirst == first.off - begin(w).off
    IN  EraseEnd(IF w.vec._size <= StaticCapacity
                 THEN EraseOnStack(w, first, last, numSub)
                 ELSE IF w.vec._size > StaticCapacity
                         /\ w.vec._size - numSub <= StaticCapacity
                 THEN EraseToStack(w, first, last, numSub, disFirst)
                 ELSE EraseOnHeap(w, first, last, numSub, disFirst),
                 disFirst)

\* erase(toRemove)
eraseOne(w, toRemove) == erase(w, toRemove, Plus(toRemove, 1))

\* What a call without a result leaves in the fields of its result: threw
\* is the type of the exception thrown, what its message and args the values
\* formatted into the message; val is a returned element, eq the results of
\* comparisons.
NoOut == [threw |-> "none", what |-> "", args |-> <<>>, val |-> Junk, eq |-> <<>>]

\* A world and the result of the call that leaves it.
WithOut(w, out) == [vec |-> w.vec, heap |-> w.heap, fault |-> w.fault, out |-> out]

\* operator[](idx)
index(w, idx) ==
    IF w.vec._capacity > StaticCapacity THEN Load(w, Ptr(w.vec.heapArr, idx))
    ELSE Load(w, Ptr(stackBase, idx))

\* Mutant: the bound of at() is the capacity.
at_checksCapacity(w, idx) ==
    IF idx < w.vec._capacity
    THEN WithOut(w, [NoOut EXCEPT !.val = index(w, idx)])
    ELSE WithOut(w, [NoOut EXCEPT !.threw = "std::out_of_range",
                                  !.what = "index out of range"])

\* Mutant: the message of the exception is built from the index.
at_reportsIndex(w, idx) ==
    IF idx < w.vec._size
    THEN WithOut(w, [NoOut EXCEPT !.val = index(w, idx)])
    ELSE WithOut(w, [NoOut EXCEPT !.threw = "std::out_of_range",
                                  !.what = "index out of range",
                                  !.args = <<idx>>])

\* at(idx), both overloads: the element, or the exception
\* std::out_of_range("index out of range"), whose message is a literal.
at(w, idx) ==
    IF idx < w.vec._size
    THEN WithOut(w, [NoOut EXCEPT !.val = index(w, idx)])
    ELSE WithOut(w, [NoOut EXCEPT !.threw = "std::out_of_range",
                                  !.what = "index out of range"])

\* Mutant: containers of different capacity are not equal.
equals_withCapacity(lhs, rhs) ==
    IF lhs.vec._size # rhs.vec._size \/ lhs.vec._capacity # rhs.vec._capacity THEN FALSE
    ELSE \A i \in 0..(lhs.vec._size - 1) : index(lhs, i) = index(rhs, i)

\* operator==(rhs): lhs and rhs are worlds over the same free store.
equals(lhs, rhs) ==
    IF lhs.vec._size # rhs.vec._size THEN FALSE
    ELSE \A i \in 0..(lhs.vec._size - 1) : index(lhs, i) = index(rhs, i)

\* operator!=(rhs)
notEquals(lhs, rhs) == ~equals(lhs, rhs)

\* Mutant: the copy takes over the fields of the other container.
CopyCtor_shallow(w, other) == [w EXCEPT !.vec = other]

\* VLVector(other): VLVector(other.begin(), other.end())
CopyCtor(w, other) == RangeCtor(w, Elems(TempOf(w, other)))

\* ----------------------------------------------------------------- state
\* a      the container
\* alive  whether a is between its construction and its destruction
\* heap   the free store
\* fault  the first memory error any operation committed, "none" if none
\* last   the call under observation: its name, its arguments, the elements,
\*        capacity and buffer of a when it was made, and what it returned.
\*        Any call of a run may be the observed one, and the run is followed
\*        up to the return of that call (op = "none": no call observed yet).
\* pushed the values of the push_back calls made since construction, while
\*        no other operation was called (only = TRUE)
\* b       a second container, the right-hand side of an assignment
\* pc      where the assignment a = b stands: "idle" outside operator=,
\*         "enter" at the top of the innermost call of operator=, "return"
\*         when that call has returned, "overflow" when a call found no room
\*         on the call stack
\* frames  the temporaries VLVector(rhs) of the calls of operator= that are
\*         waiting for their nested call, outermost first
\* reading how the build reads the self-assignment test of line 90
VARIABLES a, alive, heap, fault, last, pushed, b, pc, frames, reading

vars == <<a, alive, heap, fault, last, pushed, b, pc, frames, reading>>

asgVars == <<b, pc, frames, reading>>

W == World(a, heap, fault)

NoPtr == Ptr(nullptr, 0)

NoCall == [op |-> "none", pre |-> <<>>, preCap |-> 0, preHeapArr |-> nullptr,
           p |-> 0, l |-> 0, run |-> <<>>, ret |-> NoPtr,
           copied |-> NoCopy, out |-> NoOut]

Call(op, p, l, run, ret) ==
    [op |-> op, pre |-> Elems(W), preCap |-> a._capacity, preHeapArr |-> a.heapArr,
     p |-> p, l |-> l, run |-> run, ret |-> ret,
     copied |-> NoCopy, out |-> NoOut]

Observe(obs, call) == last' = IF obs THEN call ELSE NoCall

Running == alive /\ last.op = "none" /\ pc = "idle"

Commit(w) == /\ a' = w.vec
             /\ heap' = w.heap
             /\ fault' = w.fault

\* The call returns: r is the world it leaves, with the returned iterator.
Return(r, obs, op, p, l, run) ==
    /\ Commit(r)
    /\ Observe(obs, Call(op, p, l, run, r.ret))

\* A call without a return value returns: r is the world it leaves; the
\* record keeps the element count of the std::copy it made, if any.
Done(r, obs, op, run) ==
    /\ Commit(r)
    /\ Observe(obs, [Call(op, 0, 0, run, NoPtr) EXCEPT !.copied = r.copied])

NotOnlyPushes == pushed' = [only |-> FALSE, vals |-> <<>>]

Init == /\ a = DefaultVec
        /\ alive = TRUE
        /\ heap = EmptyHeap
        /\ fault = "none"
        /\ last = NoCall
        /\ pushed = [only |-> TRUE, vals |-> <<>>]
        /\ b = DefaultVec
        /\ pc = "idle"
        /\ frames = <<>>
        /\ reading = "identity"

PushBack == \E x \in Val, obs \in BOOLEAN :
    /\ Running /\ a._size < MaxSize
    /\ Done(push_back(W, x), obs, "push_back", <<x>>)
    /\ pushed' = IF pushed.only THEN [pushed EXCEPT !.vals = Append(@, x)] ELSE pushed
    /\ UNCHANGED <<alive, asgVars>>

PopBack == \E obs \in BOOLEAN :
    /\ Running
    /\ Done(pop_back(W), obs, "pop_back", <<>>)
    /\ NotOnlyPushes
    /\ UNCHANGED <<alive, asgVars>>

Clear == \E obs \in BOOLEAN :
    /\ Running
    /\ Done(clear(W), obs, "clear", <<>>)
    /\ NotOnlyPushes
    /\ UNCHANGED <<alive, asgVars>>

\* position = begin() + p with 0 <= p <= size()
InsertRange == \E p \in 0..a._size, xs \in Runs, obs \in BOOLEAN :
    /\ Running /\ a._size + Len(xs) <= MaxSize
    /\ Return(insertRange(W, Plus(begin(W), p), xs), obs, "insert_range", p, p, xs)
    /\ NotOnlyPushes
    /\ UNCHANGED <<alive, asgVars>>

InsertOne == \E p \in 0..a._size, x \in Val, obs \in BOOLEAN :
    /\ Running /\ a._size + 1 <= MaxSize
    /\ Return(insertOne(W, Plus(begin(W), p), x), obs, "insert", p, p, <<x>>)
    /\ NotOnlyPushes
    /\ UNCHANGED <<alive, asgVars>>

\* first = begin() + f, last = begin() + l with 0 <= f <= l <= size()
EraseRange == \E f \in 0..a._size, obs \in BOOLEAN : \E l \in f..a._size :
    /\ Running
    /\ Return(erase(W, Plus(begin(W), f), Plus(begin(W), l)), obs, "erase_range", f, l, <<>>)
    /\ NotOnlyPushes
    /\ UNCHANGED <<alive, asgVars>>

\* toRemove = begin() + f with 0 <= f < size()
EraseOne == \E f \in 0..(a._size - 1), obs \in BOOLEAN :
    /\ Running
    /\ Return(eraseOne(W, Plus(begin(W), f)), obs, "erase", f, f + 1, <<>>)
    /\ NotOnlyPushes
    /\ UNCHANGED <<alive, asgVars>>

\* The call returns or throws: r is the world it leaves, with its result.
Result(r, op, p) ==
    /\ Commit(r)
    /\ last' = [Call(op, p, p, <<>>, NoPtr) EXCEPT !.out = r.out]

\* at(idx) with an index below, at or above size(), including capacity().
At == \E idx \in 0..a._capacity :
    /\ Running
    /\ Result(at(W, idx), "at", idx)
    /\ UNCHANGED <<alive, pushed, asgVars>>

\* The container goes out of scope.
Destroy == \E obs \in BOOLEAN :
    /\ Running
    /\ Done(Destructor(W), obs, "~VLVector", <<>>)
    /\ alive' = FALSE
    /\ NotOnlyPushes
    /\ UNCHANGED asgVars

\* A new container is default-constructed.
Construct ==
    /\ ~alive /\ last.op = "none"
    /\ a' = DefaultVec
    /\ alive' = TRUE
    /\ pushed' = [only |-> TRUE, vals |-> <<>>]
    /\ UNCHANGED <<heap, fault, last, asgVars>>

\* erase(begin() + p, begin() + p + k) right after the observed insert of k
\* elements at begin() + p; the record keeps the elements from before the insert.
ReturnErased(r) ==
    /\ Commit(r)
    /\ last' = [last EXCEPT !.op = "insert_erase", !.l = last.p + Len(last.run),
                            !.ret = r.ret]

EraseInserted ==
    /\ alive /\ last.op \in {"insert", "insert_range"}
    /\ ReturnErased(erase(W, Plus(begin(W), last.p), Plus(begin(W), last.p + Len(last.run))))
    /\ UNCHANGED <<alive, pushed, asgVars>>

Next == \/ PushBack \/ PopBack \/ Clear
        \/ InsertRange \/ InsertOne \/ EraseRange \/ EraseOne \/ EraseInserted
        \/ At \/ Destroy \/ Construct

Spec == Init /\ [][Next]_vars

\* ------------------------------------------------------------ operator=
\* The test of line 90, if (&rhs == *this), compares an address with an
\* object.  It has two well-typed readings, and the model runs with either:
\* the identity test &rhs == this, and the value test rhs == *this.
SameAsThis(how, w, rhsIsThis, rhs) ==
    IF how = "identity" THEN rhsIsThis ELSE equals(w, TempOf(w, rhs))

Readings == {"identity", "equality"}

\* Two containers built from input ranges, as by VLVector(first, last).
AssignInit == \E sa \in Runs, sb \in Runs, how \in Readings :
    LET wa == RangeCtor(World(DefaultVec, EmptyHeap, "none"), sa)
        wb == RangeCtor(wa, sb)
    IN  /\ a = wa.vec
        /\ b = wb.vec
        /\ heap = wb.heap
        /\ fault = wb.fault
        /\ alive = TRUE
        /\ last = NoCall
        /\ pushed = [only |-> FALSE, vals |-> <<>>]
        /\ pc = "idle"
        /\ frames = <<>>
        /\ reading = how

\* a = b is called; the record keeps the elements of a and of b at the call.
AssignCall ==
    /\ pc = "idle" /\ last.op = "none"
    /\ pc' = "enter"
    /\ last' = Call("operator=", 0, 0, Elems(TempOf(W, b)), NoPtr)
    /\ UNCHANGED <<a, alive, heap, fault, pushed, b, frames, reading>>

\* a = a is called; the record keeps the elements of a at the call.
AssignSelfCall ==
    /\ pc = "idle" /\ last.op = "none"
    /\ pc' = "enter"
    /\ last' = Call("operator=self", 0, 0, Elems(W), NoPtr)
    /\ UNCHANGED <<a, alive, heap, fault, pushed, b, frames, reading>>

\* Whether rhs is the object *this: only in the outermost call of a = a.
RhsIsThis == frames = <<>> /\ last.op = "operator=self"

\* The right-hand side of the innermost call: b, or a in a = a, in the
\* outermost call, the caller's temporary in a nested one.
Rhs == IF frames # <<>> THEN frames[Len(frames)]
       ELSE IF last.op = "operator=self" THEN a ELSE b

\* Line 90 to 92: the innermost call finds rhs to be *this and returns.
AssignSelf ==
    /\ pc = "enter"
    /\ SameAsThis(reading, W, RhsIsThis, Rhs)
    /\ pc' = "return"
    /\ UNCHANGED <<a, alive, heap, fault, last, pushed, b, frames, reading>>

\* The temporary of world tw takes a frame.
PushTemp(tw) ==
    /\ heap' = tw.heap
    /\ fault' = tw.fault
    /\ frames' = Append(frames, tw.vec)

\* Line 94 and 95: clear(), the temporary VLVector(rhs), and the call
\* *this = temporary, which is operator= again.
AssignBody ==
    /\ pc = "enter"
    /\ ~SameAsThis(reading, W, RhsIsThis, Rhs)
    /\ a' = clear(W).vec
    /\ PushTemp(CopyCtor(clear(W), Rhs))
    /\ pc' = IF Len(frames) + 2 <= MaxDepth THEN "enter" ELSE "overflow"
    /\ UNCHANGED <<alive, last, pushed, b, reading>>

\* Line 95 and 96 in a caller whose nested call returned: the temporary is
\* destroyed and the caller returns.
AssignResume ==
    /\ pc = "return" /\ frames # <<>>
    /\ LET tw == Destructor(TempOf(W, frames[Len(frames)]))
       IN  /\ heap' = tw.heap
           /\ fault' = tw.fault
    /\ frames' = SubSeq(frames, 1, Len(frames) - 1)
    /\ UNCHANGED <<a, alive, last, pushed, b, pc, reading>>

\* The outermost call has returned.
AssignReturn ==
    /\ pc = "return" /\ frames = <<>>
    /\ pc' = "idle"
    /\ UNCHANGED <<a, alive, heap, fault, last, pushed, b, frames, reading>>

AssignNext == \/ AssignCall \/ AssignSelfCall
              \/ AssignSelf \/ AssignBody \/ AssignResume \/ AssignReturn

AssignSpec == AssignInit /\ [][AssignNext]_vars

\* ------------------------------------------------------ copy and compare
\* One input range of each length up to MaxRun.
Originals == {[i \in 1..n |-> 1 + (i % NumVal)] : n \in 0..MaxRun}

\* A container b built from an input range, as by VLVector(first, last); its
\* copy a is not constructed yet.
CopyInit == \E sb \in Originals :
    /\ b = RangeCtor(World(DefaultVec, EmptyHeap, "none"), sb).vec
    /\ heap = RangeCtor(World(DefaultVec, EmptyHeap, "none"), sb).heap
    /\ fault = RangeCtor(World(DefaultVec, EmptyHeap, "none"), sb).fault
    /\ a = DefaultVec
    /\ alive = FALSE
    /\ last = NoCall
    /\ pushed = [only |-> FALSE, vals |-> <<>>]
    /\ pc = "idle"
    /\ frames = <<>>
    /\ reading = "identity"

\* The copy constructor returns: r is the world of the new container.  The
\* record keeps the elements of b at the call and those the copy starts with.
Constructed(r) ==
    /\ Commit(r)
    /\ last' = [NoCall EXCEPT !.op = "copy", !.pre = Elems(TempOf(W, b)),
                              !.preCap = b._capacity, !.preHeapArr = b.heapArr,
                              !.run = Elems(r)]

\* VLVector a(b)
CopyConstruct ==
    /\ ~alive /\ last.op = "none"
    /\ Constructed(CopyCtor(W, b))
    /\ alive' = TRUE
    /\ UNCHANGED <<pushed, asgVars>>

\* The copy is in use: constructed, and no comparison observed yet.
Copying == alive /\ last.op = "copy"

CopyPushBack == \E x \in Val :
    /\ Copying /\ a._size < MaxSize
    /\ Commit(push_back(W, x))
    /\ UNCHANGED <<alive, last, pushed, asgVars>>

CopyPopBack ==
    /\ Copying
    /\ Commit(pop_back(W))
    /\ UNCHANGED <<alive, last, pushed, asgVars>>

CopyClear ==
    /\ Copying
    /\ Commit(clear(W))
    /\ UNCHANGED <<alive, last, pushed, asgVars>>

CopyInsertRange == \E p \in 0..a._size, xs \in Runs :
    /\ Copying /\ a._size + Len(xs) <= MaxSize
    /\ Commit(insertRange(W, Plus(begin(W), p), xs))
    /\ UNCHANGED <<alive, last, pushed, asgVars>>

CopyInsertOne == \E p \in 0..a._size, x \in Val :
    /\ Copying /\ a._size + 1 <= MaxSize
    /\ Commit(insertOne(W, Plus(begin(W), p), x))
    /\ UNCHANGED <<alive, last, pushed, asgVars>>

CopyEraseRange == \E f \in 0..a._size : \E l \in f..a._size :
    /\ Copying
    /\ Commit(erase(W, Plus(begin(W), f), Plus(begin(W), l)))
    /\ UNCHANGED <<alive, last, pushed, asgVars>>

CopyEraseOne == \E f \in 0..(a._size - 1) :
    /\ Copying
    /\ Commit(eraseOne(W, Plus(begin(W), f)))
    /\ UNCHANGED <<alive, last, pushed, asgVars>>

\* With a third container of world w3: if a == b and b == c then a == c.
Transitive(w3) ==
    (equals(TempOf(w3, a), TempOf(w3, b)) /\ equals(TempOf(w3, b), w3))
        => equals(TempOf(w3, a), w3)

\* The comparisons of a and b with each other and with themselves, a != b,
\* and the comparisons with every third container built from an input range.
Comparisons ==
    [ab |-> equals(W, TempOf(W, b)),
     ba |-> equals(TempOf(W, b), W),
     aa |-> equals(W, W),
     bb |-> equals(TempOf(W, b), TempOf(W, b)),
     ne |-> notEquals(W, TempOf(W, b)),
     trans |-> \A xs \in Runs : Transitive(RangeCtor(W, xs))]

\* a == b, b == a, a != b and the rest are evaluated; the record keeps the results.
Compare ==
    /\ Copying
    /\ last' = [last EXCEPT !.op = "compare", !.out.eq = Comparisons]
    /\ UNCHANGED <<a, alive, heap, fault, pushed, asgVars>>

CopyNext == \/ CopyConstruct
            \/ CopyPushBack \/ CopyPopBack \/ CopyClear
            \/ CopyInsertRange \/ CopyInsertOne \/ CopyEraseRange \/ CopyEraseOne
            \/ Compare

CopySpec == CopyInit /\ [][CopyNext]_vars

\* ---------------------------------------------------------------- claims
OnHeap == a._capacity > StaticCapacity
Inline == data(W).base = stackBase
LiveAddrs == {x \in Addr : heap[x].live}
Inserted == last.op \in {"insert", "insert_range"}
Erased == last.op \in {"erase", "erase_range"}
Spliced(s, p, xs) == SubSeq(s, 1, p) \o xs \o SubSeq(s, p + 1, Len(s))
Cut(s, f, l) == SubSeq(s, 1, f) \o SubSeq(s, l + 1, Len(s))

\* C1: after every public operation on a live container, size <= capacity.
C1_SizeLeCapacity == alive => a._size <= a._capacity

\* An insert on the heap has just filled the buffer to the last slot.
C1_Witness ==
    /\ alive /\ Inserted /\ last.preCap > StaticCapacity
    /\ a._size = a._capacity

\* C2: after every public operation capacity >= N; the inline buffer is in use
\* exactly when capacity = N, and then heapArr is null; a live heap buffer of
\* exactly `capacity` slots is owned exactly when capacity > N.
C2_StorageMatchesCapacity ==
    alive =>
        /\ a._capacity >= StaticCapacity
        /\ Inline <=> a._capacity = StaticCapacity
        /\ a._capacity = StaticCapacity => a.heapArr = nullptr
        /\ a._capacity > StaticCapacity =>
               /\ a.heapArr \in Addr
               /\ heap[a.heapArr].live
               /\ Len(heap[a.heapArr].slots) = a._capacity

\* An erase has just taken the container from the heap back to the inline buffer.
C2_Witness ==
    /\ alive /\ Erased /\ last.preCap > StaticCapacity
    /\ a._capacity = StaticCapacity /\ a._size > 0

\* C3: insert of the run e_1..e_k at index p of a container holding s leaves it
\* holding s[0..p), e_1..e_k, s[p..size), with size grown by k (both forms).
C3_InsertSplices ==
    (alive /\ Inserted) =>
        /\ Elems(W) = Spliced(last.pre, last.p, last.run)
        /\ a._size = Len(last.pre) + Len(last.run)

\* A range insert in front of an element of an inline container that stays inline.
C3_Witness ==
    /\ alive /\ last.op = "insert_range"
    /\ last.preCap = StaticCapacity /\ a._capacity = StaticCapacity
    /\ Len(last.run) > 0 /\ last.p < Len(last.pre)

\* C4: both forms of insert return begin() + p of the container after the call.
C4_InsertReturnsFirstInserted ==
    (alive /\ Inserted) => last.ret = Plus(begin(W), last.p)

\* C5: erase of [f, l) from a container holding s leaves s[0..f), s[l..size),
\* size shrunk by l - f, and returns begin() + f of the resulting container; the
\* single-element form erases exactly the element at f.
C5_EraseCuts ==
    (alive /\ Erased) =>
        /\ Elems(W) = Cut(last.pre, last.p, last.l)
        /\ a._size = Len(last.pre) - (last.l - last.p)
        /\ last.ret = Plus(begin(W), last.p)
        /\ last.op = "erase" => a._size = Len(last.pre) - 1

\* An erase from the middle that demotes the container to the inline buffer.
C5_Witness ==
    /\ alive /\ last.op = "erase_range"
    /\ last.preCap > StaticCapacity /\ a._capacity = StaticCapacity
    /\ 0 < last.p /\ last.p < last.l /\ last.l < Len(last.pre)

\* C6: copy-assignment a = b between two distinct containers terminates (a
\* call that has not returned is still executing: it never runs out of call
\* stack), and when it has returned a holds the size and elements b held, b
\* is unchanged, and a shares no heap buffer with b.
C6_AssignTerminatesWithCopy ==
    last.op = "operator=" =>
        /\ pc # "idle" => pc \in {"enter", "return"}
        /\ pc = "idle" =>
               /\ a._size = Len(last.run)
               /\ Elems(W) = last.run
               /\ Elems(TempOf(W, b)) = last.run
               /\ a._capacity > StaticCapacity => a.heapArr # b.heapArr

\* C7: after n push_back calls on a default-constructed container, size = n
\* and the elements are the pushed values in push order; while n <= N the
\* capacity is N and the storage is inline.
C7_PushBackAppends ==
    (alive /\ pushed.only) =>
        /\ a._size = Len(pushed.vals)
        /\ Elems(W) = pushed.vals
        /\ Len(pushed.vals) <= StaticCapacity =>
               (a._capacity = StaticCapacity /\ Inline)

\* Pushes that went through the move to the heap and a heap reallocation.
C7_Witness ==
    /\ alive /\ pushed.only
    /\ Len(pushed.vals) > (3 * (StaticCapacity + 1)) \div 2
    /\ pushed.vals[1] # pushed.vals[2]

\* C8: the push_back that takes the size from N to N + 1 sets the capacity to
\* floor(3 (N + 1) / 2) on a heap buffer (N = 4: capacity 7); the pop_back that
\* takes the size back to N sets the capacity to N, keeps the first N elements,
\* frees the heap buffer and leaves data() on the inline buffer.
C8_PromoteThenDemote ==
    /\ capfunc(5, 4, 4) = 7
    /\ (alive /\ last.op = "push_back" /\ Len(last.pre) = StaticCapacity) =>
           /\ a._capacity = (3 * (StaticCapacity + 1)) \div 2
           /\ data(W).base = a.heapArr /\ a.heapArr \in Addr /\ heap[a.heapArr].live
           /\ Elems(W) = last.pre \o last.run
    /\ (alive /\ last.op = "pop_back" /\ Len(last.pre) = StaticCapacity + 1) =>
           /\ a._capacity = StaticCapacity
           /\ Elems(W) = SubSeq(last.pre, 1, StaticCapacity)
           /\ last.preHeapArr \in Addr /\ ~heap[last.preHeapArr].live
           /\ data(W).base = stackBase /\ data(W).base # last.preHeapArr

\* The pop_back that brings a just-promoted container back to N elements.
C8_Witness ==
    /\ alive /\ last.op = "pop_back" /\ Len(last.pre) = StaticCapacity + 1
    /\ last.preCap = (3 * (StaticCapacity + 1)) \div 2
    /\ a._size = StaticCapacity

\* C9: insert of k elements at p followed by erase of [p, p + k) restores the
\* element sequence and the size from before the insert.
C9_InsertEraseRoundTrip ==
    (alive /\ last.op = "insert_erase") =>
        /\ Elems(W) = last.pre
        /\ a._size = Len(last.pre)

\* A round trip whose insert promoted an inline container to the heap.
C9_Witness ==
    /\ alive /\ last.op = "insert_erase"
    /\ last.preCap = StaticCapacity
    /\ Len(last.pre) + Len(last.run) > StaticCapacity
    /\ 0 < last.p /\ last.p < Len(last.pre)

\* C10: no operation commits a memory error (double free, access to a freed
\* buffer or past the end of one); after every operation the live heap buffers
\* are exactly the one the container owns when capacity > N, and none when it
\* is inline or destroyed.
C10_OneOwnedBuffer ==
    /\ fault = "none"
    /\ alive => LiveAddrs = (IF a._capacity > StaticCapacity THEN {a.heapArr} ELSE {})
    /\ ~alive => LiveAddrs = {}

\* A container destroyed while it owned a heap buffer.
C10_Witness ==
    /\ ~alive /\ last.op = "~VLVector" /\ last.preCap > StaticCapacity

\* C11: erasing an empty range and inserting an empty run, at any position of
\* an inline or heap container, leave size, capacity and elements unchanged.
C11_EmptyRangeNoOp ==
    (alive /\ \/ (last.op = "erase_range" /\ last.l = last.p)
              \/ (last.op = "insert_range" /\ last.run = <<>>)) =>
        /\ Elems(W) = last.pre
        /\ a._size = Len(last.pre)
        /\ a._capacity = last.preCap

\* An empty run inserted in the middle of a full heap buffer.
C11_Witness ==
    /\ alive /\ last.op = "insert_range" /\ last.run = <<>>
    /\ last.preCap > StaticCapacity /\ Len(last.pre) = last.preCap
    /\ 0 < last.p /\ last.p < Len(last.pre)

\* C12: at(idx) throws std::out_of_range for every idx >= size(), also below
\* the capacity, and for idx < size() returns the element operator[](idx)
\* returns; either way size, capacity and elements are unchanged.
C12_AtChecksSize ==
    (alive /\ last.op = "at") =>
        /\ last.p >= Len(last.pre) =>
               /\ last.out.threw = "std::out_of_range"
               /\ last.out.val = Junk
        /\ last.p < Len(last.pre) =>
               /\ last.out.threw = "none"
               /\ last.out.val = index(W, last.p)
               /\ last.out.val = last.pre[last.p + 1]
        /\ Elems(W) = last.pre
        /\ a._size = Len(last.pre)
        /\ a._capacity = last.preCap

\* at() threw for an index inside the heap buffer but not below the size.
C12_Witness ==
    /\ alive /\ last.op = "at" /\ last.out.threw = "std::out_of_range"
    /\ last.preCap > StaticCapacity
    /\ Len(last.pre) <= last.p /\ last.p < last.preCap

RanEngine == last.op \in {"push_back", "pop_back", "clear"}

\* The engine left the elements in a new heap buffer of capfunc(size, N, capacity)
\* slots, copied from the old one, and freed the old one.
Regrown ==
    /\ a._capacity = capfunc(a._size, StaticCapacity, last.preCap)
    /\ a.heapArr \in Addr /\ a.heapArr # last.preHeapArr
    /\ heap[a.heapArr].live /\ Len(heap[a.heapArr].slots) = a._capacity
    /\ last.preHeapArr \in Addr /\ ~heap[last.preHeapArr].live
    /\ data(W).base # last.preHeapArr
    /\ last.copied = Len(last.pre)
    /\ Elems(W) = SubSeq(last.pre \o last.run, 1, a._size)

\* C17: whenever the engine runs on a heap container whose new size is >= the
\* capacity, the case size = capacity included, it allocates a buffer of
\* capfunc(size, N, capacity) slots, copies the elements, frees the old buffer
\* and adopts the new one.
C17_HeapGrowsAtFull ==
    (alive /\ RanEngine /\ last.preCap > StaticCapacity /\ a._size >= last.preCap)
        => Regrown

\* C17, as the code has it: the engine reallocates a heap container only when
\* the new size is > the capacity; at size = capacity it returns at once and
\* capacity and buffer stay as they are.
C17_HeapGrowsPastFull ==
    (alive /\ RanEngine /\ last.preCap > StaticCapacity) =>
        /\ a._size > last.preCap => Regrown
        /\ a._size = last.preCap =>
               /\ a._capacity = last.preCap
               /\ a.heapArr = last.preHeapArr /\ heap[a.heapArr].live
               /\ last.copied = NoCopy
               /\ Elems(W) = last.pre \o last.run

\* A push_back onto a full heap buffer.
C17_Witness ==
    /\ alive /\ last.op = "push_back" /\ last.preCap > StaticCapacity
    /\ Len(last.pre) = last.preCap /\ a._size > last.preCap

MinOf(x, y) == IF x <= y THEN x ELSE y

\* C18: in every storage transition of the engine under push_back, pop_back
\* and clear, the number of elements copied is min(prevSize, size); the copy
\* reads no further than the old element count and the source buffer, and
\* writes no further than the capacity of the destination.
C18_CopiesMinOfSizes ==
    (alive /\ RanEngine) =>
        /\ fault = "none"
        /\ last.copied # NoCopy =>
               /\ last.copied = MinOf(Len(last.pre), a._size)
               /\ last.copied <= last.preCap
               /\ last.copied <= a._capacity

\* The pop_back that moves the elements left back to the inline buffer.
C18_Witness ==
    /\ alive /\ last.op = "pop_back" /\ last.preCap > StaticCapacity
    /\ last.copied = StaticCapacity /\ a._capacity = StaticCapacity

\* C19: clear() on an empty container changes nothing; on a non-empty one it
\* leaves size 0, capacity N, the inline buffer in use and the heap buffer, if
\* there was one, freed.
C19_ClearEmpties ==
    (alive /\ last.op = "clear") =>
        /\ Len(last.pre) = 0 =>
               /\ a._size = 0 /\ a._capacity = last.preCap
               /\ a.heapArr = last.preHeapArr /\ last.copied = NoCopy
        /\ Len(last.pre) > 0 =>
               /\ a._size = 0 /\ a._capacity = StaticCapacity
               /\ Inline /\ Elems(W) = <<>>
               /\ last.preCap > StaticCapacity =>
                      (last.preHeapArr \in Addr /\ ~heap[last.preHeapArr].live)
               /\ LiveAddrs = {}

\* clear() of a container whose heap buffer had already been reallocated.
C19_Witness ==
    /\ alive /\ last.op = "clear"
    /\ last.preCap > (3 * (StaticCapacity + 1)) \div 2
    /\ Len(last.pre) < last.preCap

\* C20: after every public operation capacity > N exactly when size > N.
C20_HeapIffAboveStatic ==
    alive => (a._capacity > StaticCapacity <=> a._size > StaticCapacity)

\* An erase that leaves a heap container with one element more than fit inline.
C20_Witness ==
    /\ alive /\ Erased /\ Len(last.pre) > StaticCapacity + 1
    /\ a._size = StaticCapacity + 1 /\ a._capacity > StaticCapacity

\* The assignment a = a has returned and left a as it was.
SelfAssignNoOp ==
    /\ pc # "idle" => pc \in {"enter", "return"}
    /\ pc = "idle" =>
           /\ Elems(W) = last.pre /\ a._size = Len(last.pre)
           /\ a._capacity = last.preCap /\ a.heapArr = last.preHeapArr
           /\ a._capacity > StaticCapacity => heap[a.heapArr].live
           /\ fault = "none"

\* C14: self-assignment v = v is detected by an identity (same-object) test
\* and is a no-op: it returns with size, capacity, storage and elements
\* unchanged and releases no storage.
C14_SelfAssignIdentityNoOp ==
    last.op = "operator=self" => (reading = "identity" /\ SelfAssignNoOp)

\* C13: the copy constructor gives the copy the size and elements of the
\* original, and no sequence of push_back, pop_back, clear, insert and erase
\* on the copy changes the size or the elements of the original; the two
\* never share a heap buffer.
C13_CopyIsIndependent ==
    (alive /\ last.op \in {"copy", "compare"}) =>
        /\ last.run = last.pre
        /\ Elems(TempOf(W, b)) = last.pre
        /\ b._size = Len(last.pre)
        /\ (a._capacity > StaticCapacity /\ b._capacity > StaticCapacity)
               => a.heapArr # b.heapArr
        /\ b._capacity > StaticCapacity => heap[b.heapArr].live
        /\ fault = "none"

\* A copy of a heap container that was changed in place on its own heap buffer.
C13_Witness ==
    /\ alive /\ last.op = "copy"
    /\ b._capacity > StaticCapacity /\ a._capacity > StaticCapacity
    /\ a._size = Len(last.pre) /\ Elems(W) # last.pre

\* C15: operator== is true exactly when the two containers have the same size
\* and the same elements in order, whatever their capacity and storage; it is
\* reflexive, symmetric and transitive, and operator!= is its negation.
C15_EqualityByContent ==
    (alive /\ last.op = "compare") =>
        /\ last.out.eq.ab <=> Elems(W) = Elems(TempOf(W, b))
        /\ last.out.eq.ab <=>
               /\ a._size = b._size
               /\ \A i \in 0..(a._size - 1) : index(W, i) = index(TempOf(W, b), i)
        /\ last.out.eq.ba <=> last.out.eq.ab
        /\ last.out.eq.aa /\ last.out.eq.bb
        /\ last.out.eq.trans
        /\ last.out.eq.ne <=> ~last.out.eq.ab

\* Equal containers on heap buffers of different capacity.
C15_Witness ==
    /\ alive /\ last.op = "compare" /\ last.out.eq.ab
    /\ b._capacity > StaticCapacity /\ a._capacity > b._capacity
====
